---- MODULE Spec2Model ----
(***************************************************************************)
(* Workflow orchestration of the game generation pipeline: one job of a    *)
(* batch driven through the 12 steps by the Celery tasks process_batch and *)
(* execute_step, the GameService operations update_step_status, retry_step *)
(* and cancel_game, and the in-memory GameStateMachine.                    *)
(*                                                                         *)
(* The database is the committed state (batchStatus, gameStatus,           *)
(* currentStep, steps).  Every task has a session of its own with          *)
(* expire_on_commit=False, so the Game object a task loaded at its start   *)
(* keeps the attribute values of that first load: they are the worker's    *)
(* g_cs and g_status.                                                      *)
(***************************************************************************)
EXTENDS Integers, Naturals, FiniteSets, Sequences, TLC

\* ---------------------------------------------------------------- bounds
\* messages beyond the pipeline's own: redeliveries of an execute_step message
\* by the broker (task_acks_late: at-least-once) plus accepted retry_step calls
MaxExtraMessages == 1
\* targets handed to can_transition_to / transition_to: -1..MaxTarget
MaxTarget == 14

\* the games other than the candidate in the similarity comparison
MaxPeers == 2

\* the largest sample_count a learning weight reaches
MaxSamples == 2

\* the executions of stage 1 for one job: the first, then retries and
\* duplicate deliveries
MaxExecutions == 2

\* the max_retries handed to WorkflowOrchestrator: 0..MaxMaxRetries
MaxMaxRetries == 3

\* ------------------------------------------------------ program constants
\* len(STEP_DEFINITIONS)
TotalSteps == 12
\* GameStep.max_retries column default
DefaultMaxRetries == 3
\* worker_concurrency of the Celery application
WorkerConcurrency == 4

StepNumbers == 1..TotalSteps
Workers == 1..WorkerConcurrency

VARIABLES
    batchStatus,   \* Batch.status
    gameStatus,    \* Game.status
    currentStep,   \* Game.current_step
    steps,         \* GameStep rows of the job: step_number -> row
    batchQueue,    \* process_batch messages in the "batch" queue
    stepQueue,     \* execute_step messages in the "steps" queue: step -> count
    workers,       \* the execute_step tasks in progress
    dupCount,      \* redeliveries so far
    smCurrent,     \* GameStateMachine.current_step
    smResult,      \* the last TransitionResult returned
    smOp,          \* the GameStateMachine method that returned it
    simGames,      \* the games table seen by SimilarityService: id -> Game
    simResult,     \* the last SimilarityResult returned
    simOp,         \* the SimilarityService method that returned it
    genPc,         \* PreProductionStep.execute: "idle", "loop" or "returned"
    genAttempt,    \* its local attempt
    genLast,       \* its last_gdd_spec, last_mechanic_names and
                   \* last_similarity_result: empty while they are None
    genRejected,   \* the candidates found too similar so far
    genResult,     \* the dict it returned
    excluded_mechanics, \* its local list excluded_mechanics, as a set
    excluded_styles,    \* its local list excluded_styles, as a set
    genRuns,       \* the executions of stage 1 for the job so far
    genFirstRow,   \* the rows of the two tables below when this one began
    library,       \* the active mechanics of the genre, by complexity and name
    similarity_checks, \* the SimilarityCheck rows of the job, oldest first
    regeneration_logs, \* the attempt_number of its RegenerationLog rows
    lwRows,        \* the learning_weights table: mechanic_name -> row
    lwCall,        \* the arguments of the last _update_learning_weights call
    lwResult,      \* how the step-12 execution that made the call ended
    orMaxRetries,  \* WorkflowOrchestrator.max_retries
    orStep,        \* the step_number the orchestrator is driven with
    orInputs,      \* whether inputs holds every required input of the step
    orExecutor,    \* whether an executor is registered for the step
    orRetryCount,  \* the retry_count of the driver
    orResult,      \* the StepResult of the last execute_step call
    orPc,          \* the driver: "call", "returned" or "terminal"
    parPc,         \* stage 1 of each job of a batch: "loop", "accepted" (the
                   \* commit is still to come) or "returned"
    parGame,       \* the Game object in the session of each job's task
    parAttempt,    \* the local attempt of each job's execution
    parWarning     \* whether the job was returned with the similarity warning

vars == <<batchStatus, gameStatus, currentStep, steps, batchQueue, stepQueue,
          workers, dupCount, smCurrent, smResult, smOp,
          simGames, simResult, simOp,
          genPc, genAttempt, genLast, genRejected, genResult,
          excluded_mechanics, excluded_styles, genRuns, genFirstRow, library,
          similarity_checks, regeneration_logs,
          lwRows, lwCall, lwResult,
          orMaxRetries, orStep, orInputs, orExecutor, orRetryCount, orResult,
          orPc, parPc, parGame, parAttempt, parWarning>>

dbVars == <<batchStatus, gameStatus, currentStep, steps>>
smVars == <<smCurrent, smResult, smOp>>
jobVars == <<batchStatus, gameStatus, currentStep, steps, batchQueue,
             stepQueue, workers, dupCount>>
simVars == <<simGames, simResult, simOp>>
\* the variables of the components that the pipeline's tasks leave alone
genVars == <<genPc, genAttempt, genLast, genRejected, genResult,
             excluded_mechanics, excluded_styles, genRuns, genFirstRow,
             library, similarity_checks, regeneration_logs>>
\* the locals of PreProductionStep.execute that only a rejection changes
exclVars == <<genRejected, excluded_mechanics, excluded_styles>>
\* what no attempt of an execution changes
runVars == <<genRuns, genFirstRow, library>>
\* the two tables stage 1 appends to
rowVars == <<similarity_checks, regeneration_logs>>
lwVars == <<lwRows, lwCall, lwResult>>
orVars == <<orMaxRetries, orStep, orInputs, orExecutor, orRetryCount,
            orResult, orPc>>
parVars == <<parPc, parGame, parAttempt, parWarning>>
restVars == <<simVars, genVars, lwVars, orVars, parVars>>
\* what the SimilarityService, stage 1 and step 12 each leave alone
notSimVars == <<jobVars, smVars, genVars, lwVars, orVars, parVars>>
notGenVars == <<jobVars, smVars, lwVars, orVars, parVars>>
notLwVars == <<jobVars, smVars, simVars, genVars, orVars, parVars>>
\* what WorkflowOrchestrator leaves alone besides the state machine
notOrVars == <<jobVars, simVars, genVars, lwVars, parVars>>
\* what the stage-1 executions of a batch's jobs leave alone besides the games
notParVars == <<jobVars, smVars, genVars, lwVars, orVars>>

\* ------------------------------------------------------------ helpers
NewStep == [status |-> "pending", retry_count |-> 0, error |-> FALSE]

IdleWorker == [pc |-> "idle", step |-> 0, g_cs |-> 0, g_status |-> "none",
               trigger |-> FALSE]

NoResult == [allowed |-> FALSE, from_step |-> 0, to_step |-> 0, reason |-> "none"]

\* a dict without keys
EmptyDict == [k \in {} |-> 0]

NoSimilarityResult == [is_similar |-> FALSE, similarity_score |-> 0,
                       most_similar_game_id |-> 0]

\* no SimilarityService call was made
SimIdle ==
    /\ simGames = EmptyDict
    /\ simResult = NoSimilarityResult
    /\ simOp = "none"

\* the components other than the pipeline and the state machine are unused
NoStepResult == [success |-> FALSE, similarity_warning |-> FALSE,
                 similarity_score |-> 0, generation_attempts |-> 0,
                 gdd_spec |-> <<>>]

\* stage 1 is not executing
GenIdle ==
    /\ genPc = "idle"
    /\ genAttempt = 0
    /\ genLast = <<>>
    /\ genRejected = 0
    /\ genResult = NoStepResult
    /\ excluded_mechanics = {}
    /\ excluded_styles = {}
    /\ genRuns = 0
    /\ genFirstRow = [checks |-> 0, logs |-> 0]
    /\ library = <<>>
    /\ similarity_checks = <<>>
    /\ regeneration_logs = <<>>

NoCall == [selected_from_library |-> <<>>, primary |-> "", genre |-> "",
           score |-> 0]

\* step 12 has not run: the learning_weights table is empty
LwIdle ==
    /\ lwRows = EmptyDict
    /\ lwCall = NoCall
    /\ lwResult = "none"

\* no StepResult yet; error_message is modelled by the phrases it holds, the
\* empty set standing for None
NoOrResult == [success |-> FALSE, error_message |-> {}]

\* no WorkflowOrchestrator has been built
OrIdle ==
    /\ orMaxRetries = 0
    /\ orStep = 0
    /\ orInputs = FALSE
    /\ orExecutor = FALSE
    /\ orRetryCount = 0
    /\ orResult = NoOrResult
    /\ orPc = "none"

\* no batch with several jobs is in stage 1
ParIdle ==
    /\ parPc = EmptyDict
    /\ parGame = EmptyDict
    /\ parAttempt = EmptyDict
    /\ parWarning = EmptyDict

RestIdle == SimIdle /\ GenIdle /\ LwIdle /\ OrIdle /\ ParIdle

RECURSIVE SumRetries(_, _)
SumRetries(f, S) ==
    IF S = {} THEN 0
    ELSE LET n == CHOOSE x \in S : TRUE
         IN f[n].retry_count + SumRetries(f, S \ {n})

\* redeliveries and accepted retries so far
ExtraMessages == dupCount + SumRetries(steps, DOMAIN steps)

Enqueue(q, n) == [q EXCEPT ![n] = @ + 1]

\* GameStep.can_retry
can_retry(step) ==
    step.status = "failed" /\ step.retry_count < DefaultMaxRetries

\* GameService.update_step_status, the Step part (committed at once)
SetStepStatus(st, n, status, error_message) ==
    [st EXCEPT ![n] = [@ EXCEPT !.status = status,
                                !.error = IF error_message THEN TRUE ELSE @]]

\* the lowest idle worker slot takes the next task (slots are interchangeable)
IsNextIdle(w) ==
    /\ workers[w].pc = "idle"
    /\ \A v \in Workers : v < w => workers[v].pc # "idle"

\* ------------------------------------------------------------ initial state
\* BatchService.create_batch with game_count = 1: the batch is pending, the
\* game is created at step 0 and has no GameStep rows yet
Init ==
    /\ batchStatus = "pending"
    /\ gameStatus = "created"
    /\ currentStep = 0
    /\ steps = [n \in {} |-> NewStep]
    /\ batchQueue = 0
    /\ stepQueue = [n \in StepNumbers |-> 0]
    /\ workers = [w \in Workers |-> IdleWorker]
    /\ dupCount = 0
    /\ smCurrent = 0
    /\ smResult = NoResult
    /\ smOp = "none"
    /\ RestIdle

\* ------------------------------------------------------------ batch start
\* BatchService.start_batch (a batch that is not pending is left alone)
StartBatch ==
    /\ batchStatus = "pending"
    /\ batchStatus' = "running"
    /\ gameStatus' = "in_progress"
    /\ batchQueue' = batchQueue + 1
    /\ UNCHANGED <<currentStep, steps, stepQueue, workers, dupCount, smVars, restVars>>

\* the task process_batch
ProcessBatch ==
    /\ batchQueue > 0
    /\ batchQueue' = batchQueue - 1
    /\ IF gameStatus = "cancelled"
       THEN UNCHANGED <<steps, stepQueue>>
       ELSE /\ steps' = IF DOMAIN steps = {}
                        THEN [n \in StepNumbers |-> NewStep]
                        ELSE steps
            /\ stepQueue' = Enqueue(stepQueue, 1)
    /\ UNCHANGED <<batchStatus, gameStatus, currentStep, workers, dupCount, smVars, restVars>>

\* ------------------------------------------------------------ execute_step
\* a mutant of ExecuteStepBegin: the cancelled check is missing
ExecuteStepBegin_NoCancelCheck(w, n, redeliver) ==
    /\ IsNextIdle(w)
    /\ stepQueue[n] > 0
    /\ IF redeliver
       THEN /\ ExtraMessages < MaxExtraMessages
            /\ dupCount' = dupCount + 1
            /\ UNCHANGED stepQueue
       ELSE /\ stepQueue' = [stepQueue EXCEPT ![n] = @ - 1]
            /\ UNCHANGED dupCount
    /\ IF n \notin DOMAIN steps
       THEN UNCHANGED <<steps, workers>>
       ELSE /\ steps' = SetStepStatus(steps, n, "running", FALSE)
            /\ workers' = [workers EXCEPT ![w] =
                             [pc |-> "executing", step |-> n,
                              g_cs |-> currentStep, g_status |-> gameStatus,
                              trigger |-> FALSE]]
    /\ UNCHANGED <<batchStatus, gameStatus, currentStep, batchQueue, smVars, restVars>>

\* The head of the task: load the game, return if it is cancelled, else mark
\* the step running and call the executor.  redeliver: the broker keeps the
\* message and delivers it again later.
ExecuteStepBegin(w, n, redeliver) ==
    /\ IsNextIdle(w)
    /\ stepQueue[n] > 0
    /\ IF redeliver
       THEN /\ ExtraMessages < MaxExtraMessages
            /\ dupCount' = dupCount + 1
            /\ UNCHANGED stepQueue
       ELSE /\ stepQueue' = [stepQueue EXCEPT ![n] = @ - 1]
            /\ UNCHANGED dupCount
    /\ IF gameStatus = "cancelled" \/ n \notin DOMAIN steps
       THEN UNCHANGED <<steps, workers>>
       ELSE /\ steps' = SetStepStatus(steps, n, "running", FALSE)
            /\ workers' = [workers EXCEPT ![w] =
                             [pc |-> "executing", step |-> n,
                              g_cs |-> currentStep, g_status |-> gameStatus,
                              trigger |-> FALSE]]
    /\ UNCHANGED <<batchStatus, gameStatus, currentStep, batchQueue, smVars, restVars>>

\* a mutant of ExecutorReturns: an exception of the executor is not caught, the
\* Step keeps the status the head of the task gave it
ExecutorReturns_ExceptionUncaught(w, outcome) ==
    /\ workers[w].pc = "executing"
    /\ LET n == workers[w].step IN
       IF outcome = "success"
       THEN /\ steps' = SetStepStatus(steps, n, "completed", FALSE)
            /\ IF workers[w].g_cs < n
               THEN /\ currentStep' = n
                    /\ gameStatus' =
                         IF n >= 12 /\ workers[w].g_status # "completed"
                         THEN "completed"
                         ELSE gameStatus
               ELSE UNCHANGED <<currentStep, gameStatus>>
            /\ workers' = [workers EXCEPT ![w].pc = "released",
                                          ![w].trigger = (n < 12)]
       ELSE /\ steps' = IF outcome = "exception"
                        THEN steps
                        ELSE SetStepStatus(steps, n, "failed", TRUE)
            /\ workers' = [workers EXCEPT ![w].pc = "released"]
            /\ UNCHANGED <<currentStep, gameStatus>>
    /\ UNCHANGED <<batchStatus, batchQueue, stepQueue, dupCount, smVars, restVars>>

\* executor.execute returns or raises, and GameService.update_step_status
\* records the outcome: the Step row, and after a completed step the Game row,
\* written from the Game object this session loaded at the head of the task.
\* The task then commits, leaves its session and disposes its engine
\* (pc "released"); trigger is the flag trigger_next_step.
ExecutorReturns(w, outcome) ==
    /\ workers[w].pc = "executing"
    /\ LET n == workers[w].step IN
       IF outcome = "success"
       THEN /\ steps' = SetStepStatus(steps, n, "completed", FALSE)
            /\ IF workers[w].g_cs < n
               THEN /\ currentStep' = n
                    /\ gameStatus' =
                         IF n >= 12 /\ workers[w].g_status # "completed"
                         THEN "completed"
                         ELSE gameStatus
               ELSE UNCHANGED <<currentStep, gameStatus>>
            /\ workers' = [workers EXCEPT ![w].pc = "released",
                                          ![w].trigger = (n < 12)]
       ELSE /\ steps' = SetStepStatus(steps, n, "failed", TRUE)
            /\ workers' = [workers EXCEPT ![w].pc = "released"]
            /\ UNCHANGED <<currentStep, gameStatus>>
    /\ UNCHANGED <<batchStatus, batchQueue, stepQueue, dupCount, smVars, restVars>>

\* a mutant of ExecuteStepEnd: the next step is never queued
ExecuteStepEnd_NoTrigger(w) ==
    /\ workers[w].pc = "released"
    /\ workers' = [workers EXCEPT ![w] = IdleWorker]
    /\ UNCHANGED <<dbVars, batchQueue, stepQueue, dupCount, smVars, restVars>>

\* the tail of the task: queue the next step if the flag is set
ExecuteStepEnd(w) ==
    /\ workers[w].pc = "released"
    /\ stepQueue' = IF workers[w].trigger
                    THEN Enqueue(stepQueue, workers[w].step + 1)
                    ELSE stepQueue
    /\ workers' = [workers EXCEPT ![w] = IdleWorker]
    /\ UNCHANGED <<dbVars, batchQueue, dupCount, smVars, restVars>>

\* ------------------------------------------------------------ GameService
\* GameService.retry_step (returns None, changing nothing, when the step does
\* not exist or when the retry is neither forced nor allowed by can_retry)
RetryStep(n, force) ==
    /\ n \in DOMAIN steps
    /\ force \/ can_retry(steps[n])
    /\ ExtraMessages < MaxExtraMessages
    /\ steps' = [steps EXCEPT ![n] =
                   [status |-> "pending",
                    retry_count |-> @.retry_count + 1,
                    error |-> FALSE]]
    /\ gameStatus' = IF gameStatus = "failed" THEN "in_progress" ELSE gameStatus
    /\ stepQueue' = Enqueue(stepQueue, n)
    /\ UNCHANGED <<batchStatus, currentStep, batchQueue, workers, dupCount, smVars, restVars>>

\* a mutant of CancelGame: the status of the game is not looked at
CancelGame_AnyStatus ==
    /\ gameStatus' = "cancelled"
    /\ UNCHANGED <<batchStatus, currentStep, steps, batchQueue, stepQueue,
                   workers, dupCount, smVars, restVars>>

\* GameService.cancel_game (a completed or published game is left alone)
CancelGame ==
    /\ gameStatus \notin {"completed", "published"}
    /\ gameStatus' = "cancelled"
    /\ UNCHANGED <<batchStatus, currentStep, steps, batchQueue, stepQueue,
                   workers, dupCount, smVars, restVars>>

\* BatchService.cancel_batch (only a pending or running batch; its completed
\* and published games are left alone)
CancelBatch ==
    /\ batchStatus \in {"pending", "running"}
    /\ batchStatus' = "cancelled"
    /\ gameStatus' = IF gameStatus \notin {"completed", "published"}
                     THEN "cancelled"
                     ELSE gameStatus
    /\ UNCHANGED <<currentStep, steps, batchQueue, stepQueue, workers,
                   dupCount, smVars, restVars>>

Next ==
    \/ StartBatch
    \/ ProcessBatch
    \/ \E w \in Workers, n \in StepNumbers, redeliver \in BOOLEAN :
          ExecuteStepBegin(w, n, redeliver)
    \/ \E w \in Workers, outcome \in {"success", "failure", "exception"} :
          ExecutorReturns(w, outcome)
    \/ \E w \in Workers : ExecuteStepEnd(w)
    \/ \E n \in 1..(TotalSteps + 1), force \in BOOLEAN : RetryStep(n, force)
    \/ CancelGame
    \/ CancelBatch

Spec == Init /\ [][Next]_vars

\* ------------------------------------------------------ fair scheduling
\* The pipeline on its own: every queued message is delivered once, and no
\* retry_step call is made.  The Celery workers take every queued message, an
\* executor returns, and a task runs to its end.
NextLive ==
    \/ StartBatch
    \/ ProcessBatch
    \/ \E w \in Workers, n \in StepNumbers : ExecuteStepBegin(w, n, FALSE)
    \/ \E w \in Workers, outcome \in {"success", "failure", "exception"} :
          ExecutorReturns(w, outcome)
    \/ \E w \in Workers : ExecuteStepEnd(w)
    \/ CancelGame

FairLive ==
    /\ WF_vars(ProcessBatch)
    /\ WF_vars(\E w \in Workers, n \in StepNumbers : ExecuteStepBegin(w, n, FALSE))
    /\ WF_vars(\E w \in Workers, outcome \in {"success", "failure", "exception"} :
                  ExecutorReturns(w, outcome))
    /\ WF_vars(\E w \in Workers : ExecuteStepEnd(w))

SpecLive == Init /\ [][NextLive]_vars /\ FairLive

\* the pipeline and the state machine as they are before a batch is started
PipelineIdle ==
    /\ batchStatus = "pending"
    /\ gameStatus = "created"
    /\ currentStep = 0
    /\ steps = [n \in {} |-> NewStep]
    /\ batchQueue = 0
    /\ stepQueue = [n \in StepNumbers |-> 0]
    /\ workers = [w \in Workers |-> IdleWorker]
    /\ dupCount = 0
    /\ smCurrent = 0
    /\ smResult = NoResult
    /\ smOp = "none"

\* ------------------------------------------------------ GameStateMachine
Targets == (0 - 1)..MaxTarget

\* a mutant of can_transition_to: the upper range check is off by one
can_transition_to_UpperOffByOne(current_step, target_step) ==
    IF target_step <= 0 \/ target_step >= TotalSteps
    THEN [allowed |-> FALSE, from_step |-> current_step, to_step |-> target_step,
          reason |-> "invalid_step"]
    ELSE IF target_step # current_step + 1
    THEN [allowed |-> FALSE, from_step |-> current_step, to_step |-> target_step,
          reason |-> "skip"]
    ELSE [allowed |-> TRUE, from_step |-> current_step, to_step |-> target_step,
          reason |-> "none"]

\* GameStateMachine.can_transition_to
can_transition_to(current_step, target_step) ==
    IF target_step <= 0 \/ target_step > TotalSteps
    THEN [allowed |-> FALSE, from_step |-> current_step, to_step |-> target_step,
          reason |-> "invalid_step"]
    ELSE IF target_step # current_step + 1
    THEN [allowed |-> FALSE, from_step |-> current_step, to_step |-> target_step,
          reason |-> "skip"]
    ELSE [allowed |-> TRUE, from_step |-> current_step, to_step |-> target_step,
          reason |-> "none"]

\* GameStateMachine(game_id, current_step): a machine built at any step
InitSM ==
    /\ batchStatus = "pending"
    /\ gameStatus = "created"
    /\ currentStep = 0
    /\ steps = [n \in {} |-> NewStep]
    /\ batchQueue = 0
    /\ stepQueue = [n \in StepNumbers |-> 0]
    /\ workers = [w \in Workers |-> IdleWorker]
    /\ dupCount = 0
    /\ smCurrent \in 0..TotalSteps
    /\ smResult = NoResult
    /\ smOp = "none"
    /\ RestIdle

\* a call of can_transition_to
CanTransitionTo(target_step) ==
    /\ smResult' = can_transition_to(smCurrent, target_step)
    /\ smOp' = "can_transition_to"
    /\ UNCHANGED <<smCurrent, jobVars, restVars>>

\* a mutant of TransitionTo: the check is skipped also without force
TransitionTo_NeverChecks(target_step, force) ==
    /\ smCurrent' = target_step
    /\ smResult' = [allowed |-> TRUE, from_step |-> smCurrent,
                    to_step |-> target_step, reason |-> "none"]
    /\ smOp' = IF force THEN "transition_to_force" ELSE "transition_to"
    /\ UNCHANGED <<jobVars, restVars>>

\* GameStateMachine.transition_to; smOp tells a call with force from one without
TransitionTo(target_step, force) ==
    /\ IF ~force /\ ~can_transition_to(smCurrent, target_step).allowed
       THEN /\ smResult' = can_transition_to(smCurrent, target_step)
            /\ UNCHANGED smCurrent
       ELSE /\ smCurrent' = target_step
            /\ smResult' = [allowed |-> TRUE, from_step |-> smCurrent,
                            to_step |-> target_step, reason |-> "none"]
    /\ smOp' = IF force THEN "transition_to_force" ELSE "transition_to"
    /\ UNCHANGED <<jobVars, restVars>>

NextSM ==
    \/ \E t \in Targets : CanTransitionTo(t)
    \/ \E t \in Targets, force \in BOOLEAN : TransitionTo(t, force)

SpecSM == InitSM /\ [][NextSM]_vars

\* ------------------------------------------------- WorkflowOrchestrator
\* the phrases should_retry looks for in an error message
non_retryable_errors ==
    {"Invalid step number", "Missing required inputs", "No executor registered"}

\* what an executor call can do: return success, return a failure with or
\* without a message, or raise; a message of its own may hold one of the
\* phrases above
ExecutorOutcomes ==
    {[kind |-> "success", error_message |-> {}],
     [kind |-> "failure", error_message |-> {}],
     [kind |-> "failure", error_message |-> {"timeout"}],
     [kind |-> "raises", error_message |-> {"timeout"}],
     [kind |-> "raises", error_message |-> {"timeout", "Missing required inputs"}]}

\* a mutant of should_retry: the retry bound is compared with > instead of >=
should_retry_OneMore(result, retry_count, max_retries) ==
    IF result.success THEN FALSE
    ELSE IF retry_count > max_retries THEN FALSE
    ELSE IF \E error \in non_retryable_errors : error \in result.error_message
         THEN FALSE
    ELSE TRUE

\* WorkflowOrchestrator.should_retry
should_retry(result, retry_count, max_retries) ==
    IF result.success THEN FALSE
    ELSE IF retry_count >= max_retries THEN FALSE
    ELSE IF \E error \in non_retryable_errors : error \in result.error_message
         THEN FALSE
    ELSE TRUE

\* the StepResult of WorkflowOrchestrator.execute_step
StepResultOf(step_number, inputs, executor, outcome) ==
    IF step_number \notin StepNumbers
    THEN [success |-> FALSE, error_message |-> {"Invalid step number"}]
    ELSE IF ~inputs
    THEN [success |-> FALSE, error_message |-> {"Missing required inputs"}]
    ELSE IF ~executor
    THEN [success |-> FALSE, error_message |-> {"No executor registered"}]
    ELSE [success |-> outcome.kind = "success",
          error_message |-> outcome.error_message]

\* a WorkflowOrchestrator is built and is about to be driven for one step of a
\* game whose state machine is anywhere
InitOrch ==
    /\ batchStatus = "pending"
    /\ gameStatus = "created"
    /\ currentStep = 0
    /\ steps = [n \in {} |-> NewStep]
    /\ batchQueue = 0
    /\ stepQueue = [n \in StepNumbers |-> 0]
    /\ workers = [w \in Workers |-> IdleWorker]
    /\ dupCount = 0
    /\ smCurrent \in 0..TotalSteps
    /\ smResult = NoResult
    /\ smOp = "none"
    /\ SimIdle /\ GenIdle /\ LwIdle /\ ParIdle
    /\ orMaxRetries \in 0..MaxMaxRetries
    /\ orStep \in Targets
    /\ orInputs \in BOOLEAN
    /\ orExecutor \in BOOLEAN
    /\ orRetryCount = 0
    /\ orResult = NoOrResult
    /\ orPc = "call"

\* WorkflowOrchestrator.execute_step: the three refusals, then the executor;
\* a successful result moves the state machine with transition_to(step_number)
OrchExecuteStep(outcome) ==
    /\ orPc = "call"
    /\ orResult' = StepResultOf(orStep, orInputs, orExecutor, outcome)
    /\ orPc' = "returned"
    /\ IF orResult'.success
       THEN /\ smOp' = "transition_to"
            /\ IF can_transition_to(smCurrent, orStep).allowed
               THEN /\ smCurrent' = orStep
                    /\ smResult' = [allowed |-> TRUE, from_step |-> smCurrent,
                                    to_step |-> orStep, reason |-> "none"]
               ELSE /\ smResult' = can_transition_to(smCurrent, orStep)
                    /\ UNCHANGED smCurrent
       ELSE UNCHANGED smVars
    /\ UNCHANGED <<orMaxRetries, orStep, orInputs, orExecutor, orRetryCount,
                   notOrVars>>

\* the driver asks should_retry: a retry calls execute_step again with
\* retry_count + 1, anything else ends the step
OrchDecide ==
    /\ orPc = "returned"
    /\ IF should_retry(orResult, orRetryCount, orMaxRetries)
       THEN /\ orRetryCount' = orRetryCount + 1
            /\ orPc' = "call"
       ELSE /\ orPc' = "terminal"
            /\ UNCHANGED orRetryCount
    /\ UNCHANGED <<orMaxRetries, orStep, orInputs, orExecutor, orResult,
                   smVars, notOrVars>>

NextOrch ==
    \/ \E outcome \in ExecutorOutcomes : OrchExecuteStep(outcome)
    \/ OrchDecide

SpecOrch == InitOrch /\ [][NextOrch]_vars

\* ------------------------------------------------------ SimilarityService
\* Scores are exact fractions: a factor score is counted in twelfths
\* (FactorOne is 1.0), a weight in hundredths, so an overall score is counted
\* in units of 1/1200 and the threshold 0.80 is SIMILARITY_THRESHOLD * FactorOne.
FactorOne == 12

\* SIMILARITY_THRESHOLD, in hundredths
SIMILARITY_THRESHOLD == 80

\* the weights of _calculate_similarity, in hundredths
weights == [genre |-> 20, mechanics |-> 25, core_loop |-> 15,
            visual_style |-> 15, difficulty |-> 10, economy |-> 10,
            name |-> 5]

Factors == DOMAIN weights

\* dict.get(key, default)
Get(d, key, default) == IF key \in DOMAIN d THEN d[key] ELSE default

Max2(a, b) == IF a >= b THEN a ELSE b
Min2(a, b) == IF a <= b THEN a ELSE b
Abs(a) == IF a >= 0 THEN a ELSE 0 - a

\* score / checks
Ratio(score, checks) == (score * FactorOne) \div checks

\* _jaccard_similarity on the sets of the two lists
_jaccard_similarity(set_a, set_b) ==
    IF set_a = {} /\ set_b = {} THEN 0
    ELSE Ratio(Cardinality(set_a \cap set_b), Cardinality(set_a \cup set_b))

_compare_core_loop(loop_a, loop_b) ==
    IF DOMAIN loop_a = {} \/ DOMAIN loop_b = {} THEN 0
    ELSE LET same(key) == IF Get(loop_a, key, "None") = Get(loop_b, key, "None")
                          THEN 1 ELSE 0
             len_a == Get(loop_a, "session_length_target_seconds", 0)
             len_b == Get(loop_b, "session_length_target_seconds", 0)
             close == IF Abs(len_a - len_b) <= 30 THEN 1 ELSE 0
         IN Ratio(same("primary_action") + same("reward_trigger") + close, 3)

\* the score is counted in units of 1 / total_colors
_compare_visual_style(style_a, style_b) ==
    IF DOMAIN style_a = {} \/ DOMAIN style_b = {} THEN 0
    ELSE LET same(key) == IF Get(style_a, key, "None") = Get(style_b, key, "None")
                          THEN 1 ELSE 0
             palette_a == Get(style_a, "color_palette", EmptyDict)
             palette_b == Get(style_b, "color_palette", EmptyDict)
             score == same("art_style") + same("ui_theme") + same("audio_style")
             matching_colors ==
                 Cardinality({key \in DOMAIN palette_a :
                     palette_a[key] = Get(palette_b, key, "None")})
             total_colors == Max2(Max2(Cardinality(DOMAIN palette_a),
                                       Cardinality(DOMAIN palette_b)), 1)
         IN IF DOMAIN palette_a # {} /\ DOMAIN palette_b # {}
            THEN Ratio(score * total_colors + matching_colors, 4 * total_colors)
            ELSE Ratio(score, 3)

_compare_difficulty(diff_a, diff_b) ==
    IF DOMAIN diff_a = {} \/ DOMAIN diff_b = {} THEN 0
    ELSE _jaccard_similarity(Get(diff_a, "factors", {}), Get(diff_b, "factors", {}))

\* ratio >= 0.8 is 5 * min >= 4 * max
_compare_economy(econ_a, econ_b) ==
    IF DOMAIN econ_a = {} \/ DOMAIN econ_b = {} THEN 0
    ELSE LET currency == IF Get(econ_a, "currency", "None") = Get(econ_b, "currency", "None")
                         THEN 1 ELSE 0
             earn_a == Get(econ_a, "earn_per_level", 0)
             earn_b == Get(econ_b, "earn_per_level", 0)
             earn == IF earn_a # 0 /\ earn_b # 0
                        /\ 5 * Min2(earn_a, earn_b) >= 4 * Max2(earn_a, earn_b)
                     THEN 1 ELSE 0
         IN Ratio(currency + earn, 2)

\* the words that name.lower().split() leaves after the common words are removed
common_words == {"game", "the", "a", "an", "of", "in", "on"}

\* a name is the set of its lower-case words
_name_similarity(name_a, name_b) ==
    LET words_a == name_a \ common_words
        words_b == name_b \ common_words
    IN IF words_a = {} \/ words_b = {} THEN 0
       ELSE _jaccard_similarity(words_a, words_b)

\* the breakdown of _calculate_similarity
breakdown(game_a, game_b) ==
    LET gdd_a == IF game_a.gdd_is_null THEN EmptyDict ELSE game_a.gdd_spec
        gdd_b == IF game_b.gdd_is_null THEN EmptyDict ELSE game_b.gdd_spec
    IN [genre |-> IF game_a.genre = game_b.genre THEN FactorOne ELSE 0,
        mechanics |-> _jaccard_similarity(game_a.selected_mechanics,
                                          game_b.selected_mechanics),
        core_loop |-> _compare_core_loop(Get(gdd_a, "core_loop", EmptyDict),
                                         Get(gdd_b, "core_loop", EmptyDict)),
        visual_style |-> _compare_visual_style(
                             Get(gdd_a, "asset_style_guide", EmptyDict),
                             Get(gdd_b, "asset_style_guide", EmptyDict)),
        difficulty |-> _compare_difficulty(
                             Get(gdd_a, "difficulty_curve", EmptyDict),
                             Get(gdd_b, "difficulty_curve", EmptyDict)),
        economy |-> _compare_economy(Get(gdd_a, "economy", EmptyDict),
                                     Get(gdd_b, "economy", EmptyDict)),
        name |-> _name_similarity(game_a.name, game_b.name)]

RECURSIVE WeightedSum(_, _)
WeightedSum(b, keys) ==
    IF keys = {} THEN 0
    ELSE LET key == CHOOSE k \in keys : TRUE
         IN b[key] * weights[key] + WeightedSum(b, keys \ {key})

\* the overall score of _calculate_similarity
_calculate_similarity(game_a, game_b) == WeightedSum(breakdown(game_a, game_b), Factors)

\* a mutant of _get_existing_games: the candidate itself is not excluded
_get_existing_games_IncludingSelf(games, exclude_ids) ==
    {id \in DOMAIN games :
        /\ ~games[id].gdd_is_null
        /\ games[id].status \in {"created", "in_progress", "completed", "published"}}

\* _get_existing_games: the ids of the games compared with the candidate
_get_existing_games(games, exclude_ids) ==
    {id \in DOMAIN games :
        /\ id \notin exclude_ids
        /\ ~games[id].gdd_is_null
        /\ games[id].status \in {"created", "in_progress", "completed", "published"}}

RECURSIVE SetMax(_)
SetMax(S) ==
    IF S = {} THEN 0
    ELSE LET x == CHOOSE y \in S : TRUE
         IN Max2(x, SetMax(S \ {x}))

\* max_similarity of check_similarity after its loop over existing_games
max_similarity(games, new_id, existing_games) ==
    SetMax({_calculate_similarity(games[new_id], games[id]) : id \in existing_games})

\* the games most_similar_game can be: the query has no ORDER BY, the loop keeps
\* the first game of the largest similarity above 0.0
most_similar_games(games, new_id, existing_games) ==
    LET top == max_similarity(games, new_id, existing_games)
    IN IF top = 0 THEN {0}
       ELSE {id \in existing_games :
                _calculate_similarity(games[new_id], games[id]) = top}

\* ---------------------------------------------- the games of the comparison
CoreLoopA == [primary_action |-> "tap", reward_trigger |-> "score",
              session_length_target_seconds |-> 60]
StyleA == [art_style |-> "pixel", ui_theme |-> "dark", audio_style |-> "chiptune",
           color_palette |-> [primary |-> "red"]]
GddA == [core_loop |-> CoreLoopA, asset_style_guide |-> StyleA,
         difficulty_curve |-> [factors |-> {"speed"}],
         economy |-> [currency |-> "coins", earn_per_level |-> 10]]

FullGame == [genre |-> "runner", name |-> {"space", "run"},
             selected_mechanics |-> {"tap_jump", "collision_detection"},
             gdd_is_null |-> FALSE, gdd_spec |-> GddA, status |-> "in_progress"]

\* the game specs a candidate or a peer can have
GameSpecs ==
    { FullGame,
      [FullGame EXCEPT !.genre = "puzzle"],
      [FullGame EXCEPT !.selected_mechanics = {"tap_jump"}],
      [FullGame EXCEPT !.genre = "puzzle", !.selected_mechanics = {"tap_jump"}],
      [FullGame EXCEPT !.name = {"the", "game"}],
      [FullGame EXCEPT !.selected_mechanics = {}],
      [FullGame EXCEPT !.gdd_spec.difficulty_curve = [factors |-> {}]],
      [FullGame EXCEPT !.gdd_spec.economy = [currency |-> "coins"]],
      [FullGame EXCEPT !.gdd_spec = EmptyDict] }

\* the rows a peer can be: a live game of any spec, a cancelled game, a game
\* without a GDD yet
PeerRows ==
    GameSpecs \cup { [FullGame EXCEPT !.status = "cancelled"],
                     [FullGame EXCEPT !.gdd_is_null = TRUE, !.gdd_spec = EmptyDict] }

\* the id of the candidate, and the ids of the other games
CandidateId == 0
PeerIds == 1..MaxPeers

\* the state before a call check_similarity(new_game): the candidate carries
\* its generated GDD, any subset of the peers exists
InitSim ==
    /\ PipelineIdle
    /\ \E P \in SUBSET PeerIds :
          simGames \in [P \cup {CandidateId} -> PeerRows]
    /\ simGames[CandidateId] \in GameSpecs
    /\ simResult = NoSimilarityResult
    /\ simOp = "none"
    /\ GenIdle
    /\ LwIdle
    /\ OrIdle
    /\ ParIdle

\* the SimilarityResults check_similarity(new_game) can return
SimilarityResults(games, new_id) ==
    LET existing_games == _get_existing_games(games, {new_id})
        top == max_similarity(games, new_id, existing_games)
    IN {[is_similar |-> top >= SIMILARITY_THRESHOLD * FactorOne,
         similarity_score |-> top,
         most_similar_game_id |-> most] :
            most \in most_similar_games(games, new_id, existing_games)}

\* SimilarityService.check_similarity(new_game)
check_similarity ==
    /\ simOp = "none"
    /\ simResult' \in SimilarityResults(simGames, CandidateId)
    /\ simOp' = "check_similarity"
    /\ UNCHANGED <<simGames, notSimVars>>

NextSim == check_similarity

SpecSim == InitSim /\ [][NextSim]_vars

\* ------------------------------------------------- stage 1: PreProductionStep
MAX_REGENERATION_ATTEMPTS == 5

GddB == [GddA EXCEPT !.core_loop.primary_action = "swipe",
                     !.core_loop.session_length_target_seconds = 120,
                     !.asset_style_guide.art_style = "voxel"]

\* the mechanic libraries of the genre: none, three mechanics, six mechanics
Libraries ==
    { <<>>,
      <<"tap_jump", "collision_detection", "swipe_dodge">>,
      <<"tap_jump", "collision_detection", "swipe_dodge", "double_jump",
        "power_up", "score_combo">> }

Range(s) == {s[i] : i \in 1..Len(s)}

FirstN(s, n) == SubSeq(s, 1, Min2(n, Len(s)))

NotExcluded(s, excluded) == SelectSeq(s, LAMBDA m : m \notin excluded)

\* MechanicService.recommend_mechanics(genre, count); no learning weight
\* reorders the library
recommend_mechanics(lib, count) == FirstN(lib, count)

\* MechanicService.list_mechanics(genre=genre, limit=limit)
list_mechanics(lib, limit) == FirstN(lib, limit)

\* PreProductionStep._get_diverse_mechanics
_get_diverse_mechanics(lib, excluded) ==
    LET mechanics == NotExcluded(recommend_mechanics(lib, 5), excluded)
    IN IF Len(mechanics) >= 3
       THEN FirstN(mechanics, 3)
       ELSE LET all_mechanics == NotExcluded(list_mechanics(lib, 20), excluded)
                combined == mechanics \o
                    SelectSeq(all_mechanics, LAMBDA m : m \notin Range(mechanics))
            IN FirstN(combined, 3)

\* mechanic_names of an attempt: the names of the mechanics found, or the two
\* default names when none is found
mechanic_names(lib, excluded) ==
    IF _get_diverse_mechanics(lib, excluded) # <<>>
    THEN Range(_get_diverse_mechanics(lib, excluded))
    ELSE {"tap_jump", "collision_detection"}

\* what one generation attempt can produce: the mechanics selected and the GDD
\* generated for them
Candidates ==
    { [selected_mechanics |-> mechanic_names(library, excluded_mechanics),
       gdd_spec |-> gdd] : gdd \in {GddA, GddB} }

\* the job of the execution before stage 1 has run
NewGame == [FullGame EXCEPT !.selected_mechanics = {}, !.gdd_spec = EmptyDict]

\* game.gdd_spec = gdd_spec; game.selected_mechanics = mechanic_names
WithCandidate(games, c) ==
    [games EXCEPT ![CandidateId].gdd_spec = c.gdd_spec,
                  ![CandidateId].selected_mechanics = c.selected_mechanics]

Failure(artifacts) ==
    [success |-> FALSE, similarity_warning |-> FALSE, similarity_score |-> 0,
     generation_attempts |-> 0, gdd_spec |-> artifacts]

\* a stage-1 execution is about to start: the peers are any table of games,
\* the genre has any of the libraries, the job has no rows yet
InitGen ==
    /\ PipelineIdle
    /\ \E P \in SUBSET PeerIds :
          simGames \in [P \cup {CandidateId} -> PeerRows \cup {NewGame}]
    /\ simGames[CandidateId] = NewGame
    /\ \A id \in DOMAIN simGames \ {CandidateId} : simGames[id] \in PeerRows
    /\ simResult = NoSimilarityResult
    /\ simOp = "none"
    /\ genPc = "idle"
    /\ genAttempt = 0
    /\ genLast = <<>>
    /\ genRejected = 0
    /\ genResult = NoStepResult
    /\ excluded_mechanics = {}
    /\ excluded_styles = {}
    /\ genRuns = 0
    /\ genFirstRow = [checks |-> 0, logs |-> 0]
    /\ library \in Libraries
    /\ similarity_checks = <<>>
    /\ regeneration_logs = <<>>
    /\ LwIdle
    /\ OrIdle
    /\ ParIdle

\* execute up to the loop: validate_availability fails or the loop is entered
\* with attempt = 1 and empty exclusion lists
ExecuteBegin(available) ==
    /\ genPc = "idle"
    /\ genRuns' = genRuns + 1
    /\ genFirstRow' = [checks |-> Len(similarity_checks),
                       logs |-> Len(regeneration_logs)]
    /\ IF available
       THEN /\ genPc' = "loop"
            /\ genAttempt' = 1
            /\ UNCHANGED genResult
       ELSE /\ genPc' = "returned"
            /\ genResult' = Failure(<<>>)
            /\ UNCHANGED genAttempt
    /\ excluded_mechanics' = {}
    /\ excluded_styles' = {}
    /\ UNCHANGED <<genLast, genRejected, library, rowVars, simVars, notGenVars>>

\* an attempt in which generate_gdd fails and the template fallback is not
\* allowed: execute returns a failure
AttemptGenerationFails ==
    /\ genPc = "loop"
    /\ genAttempt <= MAX_REGENERATION_ATTEMPTS
    /\ genPc' = "returned"
    /\ genResult' = Failure(<<>>)
    /\ UNCHANGED <<genAttempt, genLast, exclVars, runVars, rowVars, simVars,
                   notGenVars>>

\* an attempt whose GDD is invalid also after _fix_gdd_issues
AttemptValidationFails(c) ==
    /\ genPc = "loop"
    /\ genAttempt <= MAX_REGENERATION_ATTEMPTS
    /\ genPc' = "returned"
    /\ genResult' = Failure(<<c.gdd_spec>>)
    /\ UNCHANGED <<genAttempt, genLast, exclVars, runVars, rowVars, simVars,
                   notGenVars>>

\* an attempt that raises: before the candidate is put on the game, or in
\* check_similarity after it is
AttemptRaises(c, assigned) ==
    /\ genPc = "loop"
    /\ genAttempt <= MAX_REGENERATION_ATTEMPTS
    /\ genAttempt' = genAttempt + 1
    /\ simGames' = IF assigned THEN WithCandidate(simGames, c) ELSE simGames
    /\ UNCHANGED <<genPc, genLast, genResult, exclVars, runVars, rowVars,
                   simResult, simOp, notGenVars>>

\* a mutant of AttemptChecked: a rejected candidate does not count as an attempt
AttemptChecked_NoIncrement(c) ==
    /\ genPc = "loop"
    /\ genAttempt <= MAX_REGENERATION_ATTEMPTS
    /\ simGames' = WithCandidate(simGames, c)
    /\ simResult' \in SimilarityResults(simGames', CandidateId)
    /\ simOp' = "check_similarity"
    /\ genLast' = <<[gdd_spec |-> c.gdd_spec,
                     mechanic_names |-> c.selected_mechanics,
                     similarity_result |-> simResult']>>
    /\ similarity_checks' = Append(similarity_checks,
                                   [attempt_number |-> genAttempt,
                                    is_similar |-> simResult'.is_similar])
    /\ IF ~simResult'.is_similar
       THEN /\ genPc' = "returned"
            /\ genResult' = [success |-> TRUE, similarity_warning |-> FALSE,
                             similarity_score |-> simResult'.similarity_score,
                             generation_attempts |-> genAttempt,
                             gdd_spec |-> <<c.gdd_spec>>]
            /\ UNCHANGED <<genAttempt, exclVars, regeneration_logs>>
       ELSE /\ genRejected' = Min2(genRejected + 1, MAX_REGENERATION_ATTEMPTS + 1)
            /\ regeneration_logs' = Append(regeneration_logs, genAttempt)
            /\ excluded_mechanics' = excluded_mechanics \cup c.selected_mechanics
            /\ excluded_styles' =
                   excluded_styles \cup {c.gdd_spec.asset_style_guide.art_style}
            /\ UNCHANGED <<genPc, genResult, genAttempt>>
    /\ UNCHANGED <<runVars, notGenVars>>

\* an attempt that gets a valid GDD and checks its similarity: the
\* SimilarityCheck row is added, then the candidate is accepted and returned,
\* or rejected: a RegenerationLog row is added, the candidate's mechanics and
\* art style are excluded and the attempt is counted
AttemptChecked(c) ==
    /\ genPc = "loop"
    /\ genAttempt <= MAX_REGENERATION_ATTEMPTS
    /\ simGames' = WithCandidate(simGames, c)
    /\ simResult' \in SimilarityResults(simGames', CandidateId)
    /\ simOp' = "check_similarity"
    /\ genLast' = <<[gdd_spec |-> c.gdd_spec,
                     mechanic_names |-> c.selected_mechanics,
                     similarity_result |-> simResult']>>
    /\ similarity_checks' = Append(similarity_checks,
                                   [attempt_number |-> genAttempt,
                                    is_similar |-> simResult'.is_similar])
    /\ IF ~simResult'.is_similar
       THEN /\ genPc' = "returned"
            /\ genResult' = [success |-> TRUE, similarity_warning |-> FALSE,
                             similarity_score |-> simResult'.similarity_score,
                             generation_attempts |-> genAttempt,
                             gdd_spec |-> <<c.gdd_spec>>]
            /\ UNCHANGED <<genAttempt, exclVars, regeneration_logs>>
       ELSE /\ genRejected' = genRejected + 1
            /\ regeneration_logs' = Append(regeneration_logs, genAttempt)
            /\ excluded_mechanics' = excluded_mechanics \cup c.selected_mechanics
            /\ excluded_styles' =
                   excluded_styles \cup {c.gdd_spec.asset_style_guide.art_style}
            /\ genAttempt' = genAttempt + 1
            /\ UNCHANGED <<genPc, genResult>>
    /\ UNCHANGED <<runVars, notGenVars>>

\* the loop has ended: no GDD at all is a failure, otherwise the last GDD is
\* put on the game and returned with the warning
AttemptsExhausted ==
    /\ genPc = "loop"
    /\ genAttempt > MAX_REGENERATION_ATTEMPTS
    /\ genPc' = "returned"
    /\ IF genLast = <<>>
       THEN /\ genResult' = Failure(<<>>)
            /\ UNCHANGED simGames
       ELSE /\ genResult' = [success |-> TRUE, similarity_warning |-> TRUE,
                             similarity_score |->
                                 genLast[1].similarity_result.similarity_score,
                             generation_attempts |-> MAX_REGENERATION_ATTEMPTS,
                             gdd_spec |-> <<genLast[1].gdd_spec>>]
            /\ simGames' = WithCandidate(simGames,
                               [gdd_spec |-> genLast[1].gdd_spec,
                                selected_mechanics |-> genLast[1].mechanic_names])
    /\ UNCHANGED <<genAttempt, genLast, exclVars, runVars, rowVars, simResult,
                   simOp, notGenVars>>

NextGen ==
    \/ \E available \in BOOLEAN : ExecuteBegin(available)
    \/ AttemptGenerationFails
    \/ \E c \in Candidates : AttemptValidationFails(c)
    \/ \E c \in Candidates, assigned \in BOOLEAN : AttemptRaises(c, assigned)
    \/ \E c \in Candidates : AttemptChecked(c)
    \/ AttemptsExhausted

SpecGen == InitGen /\ [][NextGen]_vars

\* stage 1 of the job is executed again (retry_step, or a second delivery of
\* the message): a new PreProductionStep.execute on the game and the rows that
\* the earlier execution left
ExecuteAgain ==
    /\ genPc = "returned"
    /\ genRuns < MaxExecutions
    /\ genPc' = "idle"
    /\ genAttempt' = 0
    /\ genLast' = <<>>
    /\ genRejected' = 0
    /\ genResult' = NoStepResult
    /\ excluded_mechanics' = {}
    /\ excluded_styles' = {}
    /\ UNCHANGED <<runVars, rowVars, simVars, notGenVars>>

\* the job before its first execution, with at most one other game
InitRegen ==
    /\ InitGen
    /\ DOMAIN simGames \subseteq {CandidateId, 1}

NextRegen ==
    \/ NextGen
    \/ ExecuteAgain

SpecRegen == InitRegen /\ [][NextRegen]_vars

\* --------------------------------------- stage 1 of the jobs of one batch
\* process_batch queues execute_step(game, 1) for every game of the batch at
\* once, and the workers run them side by side, each in a session of its own
ParJobs == {1, 2}

\* the names of the two games share no word
ParNames == [j \in ParJobs |-> IF j = 1 THEN {"space", "run"} ELSE {"sky", "dash"}]

\* the row of job j as create_batch made it: gdd_spec is the column default {}
ParNewGame(j) == [NewGame EXCEPT !.name = ParNames[j]]

\* what an attempt of a job can generate
ParCandidates ==
    { [selected_mechanics |-> {"tap_jump", "collision_detection"}, gdd_spec |-> GddA],
      [selected_mechanics |-> {"tap_jump"}, gdd_spec |-> GddA],
      [selected_mechanics |-> {"swipe_dodge"}, gdd_spec |-> GddB] }

\* the two tasks have entered their loops with attempt = 1
InitPar ==
    /\ PipelineIdle
    /\ simGames = [j \in ParJobs |-> ParNewGame(j)]
    /\ simResult = NoSimilarityResult
    /\ simOp = "none"
    /\ GenIdle /\ LwIdle /\ OrIdle
    /\ parPc = [j \in ParJobs |-> "loop"]
    /\ parGame = simGames
    /\ parAttempt = [j \in ParJobs |-> 1]
    /\ parWarning = [j \in ParJobs |-> FALSE]

\* the games the session of job j sees: the committed rows, and its own Game
\* object with the candidate on it
ParView(j, game) == [simGames EXCEPT ![j] = game]

\* an attempt of job j up to the verdict of check_similarity: the candidate is
\* on the session's Game object only; an accepted one is committed next, a
\* rejected one uses up the attempt
ParAttemptChecked(j, c) ==
    /\ parPc[j] = "loop"
    /\ parAttempt[j] <= MAX_REGENERATION_ATTEMPTS
    /\ LET game == [parGame[j] EXCEPT !.gdd_spec = c.gdd_spec,
                                      !.selected_mechanics = c.selected_mechanics]
       IN /\ parGame' = [parGame EXCEPT ![j] = game]
          /\ simResult' \in SimilarityResults(ParView(j, game), j)
    /\ simOp' = "check_similarity"
    /\ IF ~simResult'.is_similar
       THEN /\ parPc' = [parPc EXCEPT ![j] = "accepted"]
            /\ UNCHANGED parAttempt
       ELSE /\ parAttempt' = [parAttempt EXCEPT ![j] = @ + 1]
            /\ UNCHANGED parPc
    /\ UNCHANGED <<simGames, parWarning, notParVars>>

\* db.commit() of an accepted candidate, and the return of execute
ParCommit(j) ==
    /\ parPc[j] = "accepted"
    /\ simGames' = ParView(j, parGame[j])
    /\ parPc' = [parPc EXCEPT ![j] = "returned"]
    /\ UNCHANGED <<simResult, simOp, parGame, parAttempt, parWarning, notParVars>>

\* the attempts of job j are used up: the last candidate is committed with the
\* similarity warning
ParExhausted(j) ==
    /\ parPc[j] = "loop"
    /\ parAttempt[j] > MAX_REGENERATION_ATTEMPTS
    /\ simGames' = ParView(j, parGame[j])
    /\ parWarning' = [parWarning EXCEPT ![j] = TRUE]
    /\ parPc' = [parPc EXCEPT ![j] = "returned"]
    /\ UNCHANGED <<simResult, simOp, parGame, parAttempt, notParVars>>

NextPar ==
    \/ \E j \in ParJobs, c \in ParCandidates : ParAttemptChecked(j, c)
    \/ \E j \in ParJobs : ParCommit(j)
    \/ \E j \in ParJobs : ParExhausted(j)

SpecPar == InitPar /\ [][NextPar]_vars

\* ------------------------------------------------- step 12: PostLaunchStep
\* Weights are counted in hundredths.  The column is Numeric(5, 4): a row
\* loaded from the table carries a Decimal, and the adjustments 0.1 and -0.05
\* are floats, 0 is an int.
WeightOne == 100
MechanicFloor == 10
GenreFloor == 50
WeightCeiling == 200
Boost == 10
Penalty == 0 - 5

\* the performance tier of a score
weight_adjustment(score) ==
    IF score >= 70 THEN Boost ELSE IF score >= 40 THEN 0 ELSE Penalty

\* f"genre:{game.genre}"
GenreKey(genre) ==
    CASE genre = "runner" -> "genre:runner"
      [] genre = "puzzle" -> "genre:puzzle"

\* the names the loop visits: selected_mechanics + [primary_mechanic] without
\* the empty ones
VisitedNames(call) ==
    SelectSeq(call.selected_from_library \o <<call.primary>>, LAMBDA n : n # "")

NewSession == [loaded |-> lwRows, pending |-> <<>>, raised |-> "none"]

\* a mutant of Visit: a new row starts from 0.0 instead of 1.0
Visit_NewRowFromZero(session, name, genre, adjustment, floor) ==
    IF session.raised # "none" THEN session
    ELSE IF name \in DOMAIN lwRows
    THEN IF adjustment # 0
         THEN [session EXCEPT !.raised = "TypeError"]
         ELSE [session EXCEPT
                 !.loaded[name].weight = Max2(floor, Min2(WeightCeiling, @ + adjustment)),
                 !.loaded[name].sample_count = @ + 1]
    ELSE [session EXCEPT !.pending = Append(@,
             [mechanic_name |-> name, genre |-> genre,
              weight |-> adjustment, sample_count |-> 1])]

\* one pass of the body of the loop, or of the genre part, for a name.  The
\* select sees the committed rows only (autoflush is off).  On a row that
\* exists, weight.weight + weight_adjustment adds a Decimal and, unless the
\* adjustment is the int 0, a float: a TypeError.
Visit(session, name, genre, adjustment, floor) ==
    IF session.raised # "none" THEN session
    ELSE IF name \in DOMAIN lwRows
    THEN IF adjustment # 0
         THEN [session EXCEPT !.raised = "TypeError"]
         ELSE [session EXCEPT
                 !.loaded[name].weight = Max2(floor, Min2(WeightCeiling, @ + adjustment)),
                 !.loaded[name].sample_count = @ + 1]
    ELSE [session EXCEPT !.pending = Append(@,
             [mechanic_name |-> name, genre |-> genre,
              weight |-> WeightOne + adjustment, sample_count |-> 1])]

RECURSIVE VisitAll(_, _, _, _)
VisitAll(session, names, genre, adjustment) ==
    IF names = <<>> THEN session
    ELSE VisitAll(Visit(session, Head(names), genre, adjustment, MechanicFloor),
                  Tail(names), genre, adjustment)

\* the session at the commit of _update_learning_weights, or at the exception
AfterUpdates(call) ==
    LET adjustment == weight_adjustment(call.score)
    IN Visit(VisitAll(NewSession, VisitedNames(call), call.genre, adjustment),
             GenreKey(call.genre), call.genre, adjustment, GenreFloor)

\* the flush violates unique_mechanic_name_genre: two pending rows of one name
ViolatesUnique(pending) ==
    \E i, j \in DOMAIN pending :
        i # j /\ pending[i].mechanic_name = pending[j].mechanic_name
              /\ pending[i].genre = pending[j].genre

\* the table after the session is committed
Committed(session) ==
    [name \in DOMAIN session.loaded \cup
              {session.pending[i].mechanic_name : i \in DOMAIN session.pending} |->
        IF name \in DOMAIN session.loaded
        THEN session.loaded[name]
        ELSE LET i == CHOOSE k \in DOMAIN session.pending :
                          session.pending[k].mechanic_name = name
             IN [weight |-> session.pending[i].weight,
                 sample_count |-> session.pending[i].sample_count,
                 genre |-> session.pending[i].genre]]

\* the jobs and scores of the step-12 executions
Calls ==
    [selected_from_library : {<<>>, <<"tap_jump">>, <<"collision_detection">>,
                              <<"tap_jump", "collision_detection">>},
     primary : {"", "tap_jump"},
     genre : {"runner"},
     score : {39, 40, 69, 70}]

InitLw ==
    /\ PipelineIdle
    /\ SimIdle
    /\ GenIdle
    /\ LwIdle
    /\ OrIdle
    /\ ParIdle

\* PostLaunchStep.execute from _update_learning_weights on.  After a TypeError
\* execute returns a failure and the commit of update_step_status flushes the
\* rows added before it; a flush that violates the unique constraint rolls
\* the whole session back.
UpdateLearningWeights(call) ==
    LET session == AfterUpdates(call)
        table == Committed(session)
    IN /\ \A name \in DOMAIN table : table[name].sample_count <= MaxSamples
       /\ lwCall' = call
       /\ IF ViolatesUnique(session.pending)
          THEN /\ lwRows' = lwRows
               /\ lwResult' = "IntegrityError"
          ELSE /\ lwRows' = table
               /\ lwResult' = IF session.raised = "none" THEN "updated"
                              ELSE session.raised
       /\ UNCHANGED notLwVars

NextLw == \E call \in Calls : UpdateLearningWeights(call)

SpecLw == InitLw /\ [][NextLw]_vars

\* ================================================================ claims
CompletedSteps == {n \in DOMAIN steps : steps[n].status = "completed"}

RunningSteps == {n \in DOMAIN steps : steps[n].status = "running"}

\* an execute_step message is delivered in this step
MessageTaken ==
    \/ \E n \in StepNumbers : stepQueue'[n] < stepQueue[n]
    \/ dupCount' > dupCount

\* the task of worker w starts executing in this step
TaskStarts(w) == workers[w].pc = "idle" /\ workers'[w].pc = "executing"

\* the executor of worker w's task returns in this step
TaskReturns(w) == workers[w].pc = "executing" /\ workers'[w].pc = "released"

\* the task of worker w ends in this step
TaskEnds(w) == workers[w].pc = "released" /\ workers'[w].pc = "idle"

\* C1: in every reachable state the steps with status 'completed' are exactly
\* the steps 1..current_step
C1_CompletedIsPrefix == CompletedSteps = 1..currentStep

\* C2: a task queues step N+1 only at its tail, after its session and engine
\* are released, and only while Step N has status 'completed'
C2_NextOnlyAfterCompleted ==
    [][\A w \in Workers, m \in StepNumbers :
          (TaskEnds(w) /\ stepQueue'[m] > stepQueue[m])
             => /\ m = workers[w].step + 1
                /\ steps[workers[w].step].status = "completed"]_vars

\* C3: when the executor of step N fails, retry_count of Step N is incremented;
\* while retry_count < max_retries the task queues step N again, and once it
\* reaches max_retries the Step is failed and the Job's status is 'failed'
C3_AutomaticRetry ==
    [][\A w \in Workers :
          LET n == workers[w].step IN
          /\ (TaskReturns(w) /\ ~workers'[w].trigger /\ steps'[n].status = "failed")
                => /\ steps'[n].retry_count = steps[n].retry_count + 1
                   /\ steps'[n].retry_count >= DefaultMaxRetries
                         => gameStatus' = "failed"
          /\ (TaskEnds(w) /\ ~workers[w].trigger /\ n < TotalSteps
              /\ steps[n].retry_count < DefaultMaxRetries)
                => stepQueue'[n] = stepQueue[n] + 1]_vars

\* C4: while a Step N has status 'failed', no step after N is queued and no
\* task starts executing a step after N
C4_FailedStepHalts ==
    [][\A n \in DOMAIN steps :
          steps[n].status = "failed"
             => \A m \in StepNumbers :
                   m > n => /\ stepQueue'[m] <= stepQueue[m]
                            /\ \A w \in Workers :
                                  ~(TaskStarts(w) /\ workers'[w].step = m)]_vars

\* C5: while the job is cancelled no step advances current_step and the job
\* does not become 'completed'
C5_CancelledDiscardsResult ==
    [][gameStatus = "cancelled"
          => currentStep' = currentStep /\ gameStatus' # "completed"]_vars

\* C6: the delivery of an execute_step message for a cancelled job changes no
\* Step row, not current_step and not the job's status, starts no executor and
\* queues no step
C6_CancelledIsNoOp ==
    [][(gameStatus = "cancelled" /\ MessageTaken)
          => /\ steps' = steps
             /\ currentStep' = currentStep
             /\ gameStatus' = gameStatus
             /\ workers' = workers
             /\ \A m \in StepNumbers : stepQueue'[m] <= stepQueue[m]]_vars

\* C6 witness: the job was cancelled after process_batch queued step 1, and
\* the message of step 1 was consumed without touching any Step row
C6_Witness ==
    /\ gameStatus = "cancelled"
    /\ DOMAIN steps = StepNumbers
    /\ \A n \in StepNumbers : steps[n] = NewStep /\ stepQueue[n] = 0
    /\ batchQueue = 0
    /\ dupCount = 0
    /\ \A w \in Workers : workers[w].pc = "idle"

\* C7: in every reachable state at most one Step of the job is 'running'
C7_AtMostOneRunning == Cardinality(RunningSteps) <= 1

\* C8: current_step never decreases and stays within 0..12
C8_CurrentStepMonotonic ==
    [][currentStep' >= currentStep /\ currentStep' \in 0..TotalSteps]_vars

\* C9: a retry (retry_count incremented, the step reset to 'pending' and queued
\* again) happens only to a Step whose status is 'failed'
C9_RetryOnlyFailed ==
    [][\A n \in DOMAIN steps :
          (n \in DOMAIN steps' /\ steps'[n].retry_count > steps[n].retry_count)
             => steps[n].status = "failed"]_vars

\* C10: for current_step in 0..12 can_transition_to(target) is allowed iff
\* target = current_step + 1 and 1 <= target <= 12; a denial carries the
\* reason (invalid step number outside 1..12, skip attempt otherwise); and the
\* check leaves current_step as it was
C10_CanTransitionIffNext ==
    (smOp = "can_transition_to" /\ smResult.from_step \in 0..TotalSteps)
       => LET c == smResult.from_step
              t == smResult.to_step
          IN /\ smCurrent = c
             /\ smResult.allowed <=> (t = c + 1 /\ 1 <= t /\ t <= 12)
             /\ smResult.reason =
                   IF smResult.allowed THEN "none"
                   ELSE IF t < 1 \/ t > 12 THEN "invalid_step"
                   ELSE "skip"

\* C10 witness: the check allowed the last transition, 11 -> 12
C10_Witness ==
    /\ smOp = "can_transition_to"
    /\ smResult.allowed
    /\ smResult.from_step = 11
    /\ smResult.to_step = 12
    /\ smCurrent = 11

\* the hypothesis of C11 no longer holds: the job was cancelled or an executor
\* failed
HypothesisVoid ==
    \/ gameStatus = "cancelled"
    \/ \E n \in DOMAIN steps : steps[n].status = "failed"

JobDone == currentStep = 12 /\ gameStatus = "completed"

ComparablePeers ==
    {id \in DOMAIN simGames \ {CandidateId} :
        /\ ~simGames[id].gdd_is_null
        /\ simGames[id].status \in {"created", "in_progress", "completed", "published"}}

\* the weighted similarity of the candidate against a peer
PeerSimilarity(id) == _calculate_similarity(simGames[CandidateId], simGames[id])

IdenticalSpecs(game_a, game_b) ==
    /\ game_a.genre = game_b.genre
    /\ game_a.name = game_b.name
    /\ game_a.selected_mechanics = game_b.selected_mechanics
    /\ game_a.gdd_spec = game_b.gdd_spec

\* C13: a comparable peer whose spec is identical to the candidate's in all
\* seven factors has every factor 1.0 and the overall score 1.0, and the
\* candidate is reported too similar
C13_IdenticalScoresOne ==
    \A id \in ComparablePeers :
        IdenticalSpecs(simGames[CandidateId], simGames[id]) =>
            /\ \A f \in Factors :
                  breakdown(simGames[CandidateId], simGames[id])[f] = FactorOne
            /\ PeerSimilarity(id) = 100 * FactorOne
            /\ simOp = "check_similarity" => simResult.is_similar

\* C14: a stage-1 execution makes at most 5 generation attempts and every step
\* of its loop ends the execution or uses up an attempt, so it terminates; if
\* 5 candidates in a row were too similar it returns success with the last
\* candidate, the similarity warning and the last score
C14_BoundedRegeneration ==
    /\ [](genPc = "loop" => genAttempt \in 1..(MAX_REGENERATION_ATTEMPTS + 1))
    /\ [](genRejected <= MAX_REGENERATION_ATTEMPTS)
    /\ [][genPc = "loop" =>
            \/ genPc' = "returned"
            \/ genAttempt' = genAttempt + 1 /\ genAttempt <= MAX_REGENERATION_ATTEMPTS]_vars
    /\ [][genPc = "returned" => UNCHANGED genVars]_vars
    /\ [](genPc = "returned" /\ genRejected = MAX_REGENERATION_ATTEMPTS =>
            /\ genResult.success
            /\ genResult.similarity_warning
            /\ genResult.generation_attempts = MAX_REGENERATION_ATTEMPTS
            /\ genResult.gdd_spec = <<genLast[1].gdd_spec>>
            /\ genResult.similarity_score = simResult.similarity_score
            /\ simResult.is_similar
            /\ simGames[CandidateId].gdd_spec = genLast[1].gdd_spec)

\* C14 witness: five candidates were rejected and the execution returned the
\* last one with the warning
C14_Witness ==
    /\ genPc = "returned"
    /\ genRejected = MAX_REGENERATION_ATTEMPTS
    /\ genResult.success
    /\ genResult.similarity_warning
    /\ genResult.similarity_score >= SIMILARITY_THRESHOLD * FactorOne

IsGenreRow(name) == name \in {GenreKey(g) : g \in {"runner", "puzzle"}}

\* C15: every mechanic weight lies in [0.1, 2.0] and every genre weight in
\* [0.5, 2.0]
C15_WeightsWithinBounds ==
    \A name \in DOMAIN lwRows :
        /\ lwRows[name].weight <= WeightCeiling
        /\ lwRows[name].weight >= IF IsGenreRow(name) THEN GenreFloor ELSE MechanicFloor

\* C15 witness: after several executions the table holds a boosted mechanic
\* weight, a penalised mechanic weight and a genre weight, one of them updated
\* more than once
C15_Witness ==
    /\ \E name \in DOMAIN lwRows :
          ~IsGenreRow(name) /\ lwRows[name].weight = WeightOne + Boost
    /\ \E name \in DOMAIN lwRows :
          ~IsGenreRow(name) /\ lwRows[name].weight = WeightOne + Penalty
    /\ \E name \in DOMAIN lwRows : IsGenreRow(name) /\ lwRows[name].sample_count > 1

\* the distinct mechanics of the job of a call
MechanicsOf(call) == {VisitedNames(call)[i] : i \in DOMAIN VisitedNames(call)}

\* C16: one execution of step 12 with score s moves the weight of every
\* distinct mechanic of the job and of the job's genre entry by exactly one
\* adjustment (clamped), starting from 1.0 for a row it creates, and adds
\* exactly 1 to the sample_count
C16_OneAdjustmentPerRow ==
    [][\A name \in MechanicsOf(lwCall') \cup {GenreKey(lwCall'.genre)} :
          LET adjustment == weight_adjustment(lwCall'.score)
              floor == IF IsGenreRow(name) THEN GenreFloor ELSE MechanicFloor
          IN /\ name \in DOMAIN lwRows'
             /\ IF name \in DOMAIN lwRows
                THEN /\ lwRows'[name].weight =
                           Max2(floor, Min2(WeightCeiling, lwRows[name].weight + adjustment))
                     /\ lwRows'[name].sample_count = lwRows[name].sample_count + 1
                ELSE /\ lwRows'[name].weight = WeightOne + adjustment
                     /\ lwRows'[name].sample_count = 1]_vars

\* C17: a task delivered for a step whose row is already 'completed' leaves
\* the persisted state as the first execution left it: the row stays
\* 'completed', and the other rows, current_step and the job status do not
\* change
C17_ReinvocationIdempotent ==
    [][\A w \in Workers :
          TaskStarts(w) /\ steps[workers'[w].step].status = "completed" =>
              UNCHANGED dbVars]_vars

\* C18: a job cancelled before its batch is started keeps the status
\* 'cancelled' and gets no execute_step message; process_batch queues step 1
\* exactly once for a job that is not cancelled
C18_StartSkipsCancelled ==
    [][/\ batchStatus = "pending" /\ gameStatus = "cancelled" =>
             gameStatus' = "cancelled"
       /\ batchQueue' < batchQueue =>
             stepQueue' = [stepQueue EXCEPT
                              ![1] = @ + IF gameStatus = "cancelled" THEN 0 ELSE 1]]_vars

\* C19: from its creation on a job has exactly the 12 Step rows 1..12, and they
\* start 'pending' with no retry
C19_TwelveStepRows ==
    /\ DOMAIN steps = StepNumbers
    /\ batchStatus = "pending" => \A n \in DOMAIN steps : steps[n] = NewStep

\* the steps whose required inputs in STEP_DEFINITIONS include gdd_spec
NeedsGddSpec == {2, 3, 4, 6, 7, 9, 11}

\* step 1 has never been started, so the job has no gdd_spec
GddSpecMissing == 1 \in DOMAIN steps /\ steps[1] = NewStep

\* C20: an executor is invoked only when the required inputs of its step are
\* present: no task starts executing a step that needs gdd_spec while the job
\* has none
C20_InputsVerifiedFirst ==
    [][\A w \in Workers :
          TaskStarts(w) /\ workers'[w].step \in NeedsGddSpec => ~GddSpecMissing]_vars

\* C27: transition_to(target) without force sets current_step to target iff
\* can_transition_to(target) allows it, and otherwise returns a denied result
\* and leaves current_step unchanged; with force it sets current_step to
\* target without the check
C27_TransitionAppliesCheckUnlessForced ==
    [][/\ smOp' = "transition_to" =>
             IF can_transition_to(smCurrent, smResult'.to_step).allowed
             THEN smCurrent' = smResult'.to_step /\ smResult'.allowed
             ELSE smCurrent' = smCurrent /\ ~smResult'.allowed
       /\ smOp' = "transition_to_force" =>
             smCurrent' = smResult'.to_step /\ smResult'.allowed]_vars

\* C27 witness: a transition_to without force was denied for a skipped step and
\* the machine is where it was
C27_Witness ==
    /\ smOp = "transition_to"
    /\ ~smResult.allowed
    /\ smResult.reason = "skip"
    /\ smCurrent = smResult.from_step
    /\ smResult.to_step > smCurrent + 1

\* the last result is a failure that names none of the three refusals
TransientFailure == ~orResult.success /\ orResult.error_message \cap non_retryable_errors = {}

\* C21: driven from retry_count = 0 with one increment per retry, a step that
\* keeps failing with a transient error is retried exactly max_retries times
\* and is then terminal; a failure of kind invalid step number, missing
\* required inputs or no executor registered, and a success, are retried at no
\* retry_count
C21_RetryBound ==
    /\ orRetryCount \in 0..orMaxRetries
    /\ (orPc = "terminal" /\ TransientFailure) => orRetryCount = orMaxRetries
    /\ (orPc = "returned" /\ TransientFailure /\ orRetryCount < orMaxRetries)
           => should_retry(orResult, orRetryCount, orMaxRetries)
    /\ (orPc \in {"returned", "terminal"} /\ ~TransientFailure)
           => \A retry_count \in 0..(MaxMaxRetries + 1) :
                  ~should_retry(orResult, retry_count, orMaxRetries)

\* C21 witness: a step that failed with a transient error every time is
\* terminal after max_retries = 3 retries
C21_Witness ==
    /\ orPc = "terminal"
    /\ TransientFailure
    /\ orMaxRetries = DefaultMaxRetries
    /\ orRetryCount = DefaultMaxRetries

C29_CompletedMeansAllSteps ==
    gameStatus = "completed" =>
        /\ currentStep = TotalSteps
        /\ CompletedSteps = StepNumbers

ChecksOfExecution ==
    SubSeq(similarity_checks, genFirstRow.checks + 1, Len(similarity_checks))

\* the rows this execution of stage 1 has added to regeneration_logs
LogsOfExecution ==
    SubSeq(regeneration_logs, genFirstRow.logs + 1, Len(regeneration_logs))

\* C23: within one execution of stage 1 every attempt k that is made appends
\* exactly one SimilarityCheck with attempt_number = k, accepted or rejected,
\* ended by an error or not: when attempt k is about to start the execution has
\* added the rows 1..k-1, and an accepted candidate returns with the rows
\* 1..generation_attempts
C23_OneCheckPerAttempt ==
    /\ genPc = "loop" =>
          /\ Len(ChecksOfExecution) = genAttempt - 1
          /\ \A k \in 1..Len(ChecksOfExecution) :
                ChecksOfExecution[k].attempt_number = k
    /\ (genPc = "returned" /\ genResult.success) =>
          /\ Len(ChecksOfExecution) = genResult.generation_attempts
          /\ \A k \in 1..Len(ChecksOfExecution) :
                ChecksOfExecution[k].attempt_number = k

\* C24: a RegenerationLog is recorded only for a too-similar candidate of an
\* attempt below 5, so one execution records at most 4 and the fifth attempt
\* records none
C24_NoLogForLastAttempt ==
    /\ Len(LogsOfExecution) <= MAX_REGENERATION_ATTEMPTS - 1
    /\ \A i \in 1..Len(LogsOfExecution) :
          LogsOfExecution[i] < MAX_REGENERATION_ATTEMPTS

\* C25: the attempt_numbers of a job's SimilarityCheck rows, in order of
\* creation, are strictly increasing and lie in 1..5, also when stage 1 is
\* executed again
C25_AttemptNumbersIncrease ==
    \A i \in 1..Len(similarity_checks) :
        /\ similarity_checks[i].attempt_number \in 1..MAX_REGENERATION_ATTEMPTS
        /\ \A j \in 1..Len(similarity_checks) :
              i < j => similarity_checks[i].attempt_number
                          < similarity_checks[j].attempt_number

\* C26: in the regeneration loop the exclusion sets start empty and only grow,
\* and the mechanics of a checked candidate contain none of the mechanics of
\* the candidates rejected before it, whatever is left of the library
C26_ExcludedNeverSelected ==
    /\ [](genPc = "loop" /\ genAttempt = 1 =>
              excluded_mechanics = {} /\ excluded_styles = {})
    /\ [][genPc = "loop" =>
              /\ excluded_mechanics \subseteq excluded_mechanics'
              /\ excluded_styles \subseteq excluded_styles']_vars
    /\ [][(genPc = "loop" /\ similarity_checks' # similarity_checks) =>
              simGames'[CandidateId].selected_mechanics
                  \cap excluded_mechanics = {}]_vars

\* C28: two jobs whose stage 1 ran in parallel and that were both accepted
\* without the similarity warning have a similarity below 0.80
C28_ParallelJobsDiffer ==
    \A i, j \in ParJobs :
        (/\ i # j
         /\ parPc[i] = "returned" /\ ~parWarning[i]
         /\ parPc[j] = "returned" /\ ~parWarning[j])
        => _calculate_similarity(simGames[i], simGames[j])
               < SIMILARITY_THRESHOLD * FactorOne

====
